---- MODULE Spec2Model ----
(***************************************************************************)
(* Commute-ai backend: the route-search pipeline (POST /routes/search),    *)
(* the preference stores it reads, and the collaborators it calls: the     *)
(* routing and insight adapters with their lazily created clients.         *)
(*                                                                         *)
(* A search request is one coroutine with two suspension points, the       *)
(* routing call and the insight call; each action below is the code that   *)
(* runs between two suspension points.                                     *)
(***************************************************************************)
EXTENDS Integers, Sequences, FiniteSets, TLC

\* ---------------------------------------------------------------- bounds
MaxUsers == 2
MaxRequests == 1
MaxItins == 2
MaxLegs == 2
MaxPromptLen == 2
MaxCoord == 1
MaxRows == 1
MaxStoreRows == 2
MaxId == 2
MaxClients == 2

Users == 1..MaxUsers
Requests == 1..MaxRequests
CoordValues == 0..MaxCoord

\* ---------------------------------------------------------------- values
\* Optional[...] values: None is kept apart from an empty list.
None == [is_none |-> TRUE, list |-> <<>>]
Some(l) == [is_none |-> FALSE, list |-> l]

\* An absent insight text (a plain Itinerary / Leg has no ai_insight).
Absent == <<>>

\* Prompts are strings, kept as sequences of characters so that strip() is
\* computed; " " is the whitespace character.
Chars == {" ", "a"}
PromptInputs == UNION {[1..n -> Chars] : n \in 0..MaxPromptLen}

RECURSIVE LStrip(_)
LStrip(s) == IF s # <<>> /\ Head(s) = " " THEN LStrip(Tail(s)) ELSE s

RECURSIVE RStrip(_)
RStrip(s) ==
    IF s # <<>> /\ s[Len(s)] = " " THEN RStrip(SubSeq(s, 1, Len(s) - 1)) ELSE s

\* str.strip()
Strip(s) == RStrip(LStrip(s))

\* Python truthiness of an Optional[List]: None and [] are falsy.
Truthy(opt) == ~opt.is_none /\ opt.list # <<>>

\* RouteSearchRequest.num_itineraries: Field(default=3, ge=1, le=10). The
\* field of the request body is either left out or an integer.
DefaultNumItineraries == 3
MinNumItineraries == 1
MaxNumItineraries == 10

NumOmitted == [is_none |-> TRUE, value |-> 0]
NumGiven(n) == [is_none |-> FALSE, value |-> n]

NumInputs ==
    {NumOmitted} \cup {NumGiven(n) : n \in {MinNumItineraries - 1, MinNumItineraries,
                                            MaxNumItineraries, MaxNumItineraries + 1}}

\* A constraint that forgets the upper limit.
ValidNumItinerariesNoUpperLimit(num_in) ==
    num_in.is_none \/ num_in.value >= MinNumItineraries

ValidNumItineraries(num_in) ==
    num_in.is_none
        \/ (num_in.value >= MinNumItineraries /\ num_in.value <= MaxNumItineraries)

NumItineraries(num_in) ==
    IF num_in.is_none THEN DefaultNumItineraries ELSE num_in.value

\* ---------------------------------------------------------------- itineraries
\* Leg and Itinerary (app/schemas/itinary.py); ai_insight is Absent on the
\* plain classes and a text on LegWithInsight / ItineraryWithInsight.
Leg(mode, duration) == [mode |-> mode, duration |-> duration, ai_insight |-> Absent]

Itinerary(duration, legs) == [duration |-> duration, legs |-> legs, ai_insight |-> Absent]

\* The itineraries the routing provider can answer with: one walk-only
\* itinerary and walk+transit itineraries of up to MaxLegs legs.
LegOfPool(j) == IF j = 1 THEN Leg("WALK", 600) ELSE Leg("BUS", 2100 + j)

ItinPool == {Itinerary(600 * n, [j \in 1..n |-> LegOfPool(j)]) : n \in 1..MaxLegs}

RoutedLists == UNION {[1..n -> ItinPool] : n \in 0..MaxItins}

\* What the insight provider can answer with: M entries, entry i carrying an
\* itinerary text and L_i leg texts; the texts name their position.
InsightEntry(i, l) ==
    [ai_insight |-> <<"it", i>>, leg_insights |-> [j \in 1..l |-> <<"leg", i, j>>]]

InsightResponses ==
    UNION {{[i \in 1..m |-> InsightEntry(i, ls[i])] : ls \in [1..m -> 0..MaxLegs]}
           : m \in 0..MaxItins}

\* The itinerary / leg with every insight field removed.
PlainLeg(leg) == [leg EXCEPT !.ai_insight = Absent]

PlainItinerary(it) ==
    [it EXCEPT !.ai_insight = Absent,
               !.legs = [j \in 1..Len(it.legs) |-> PlainLeg(it.legs[j])]]

Plain(its) == [i \in 1..Len(its) |-> PlainItinerary(its[i])]

\* ---------------------------------------------------------------- state
VARIABLES tables, next_id, req, clients

vars == <<tables, next_id, req, clients>>

Services == {"preference", "global_preference", "route_preference"}

NoCoords == <<>>

\* The origin and destinations searched for, and the stored coordinate
\* quadruples: the searched one and those differing from it in one field.
SearchOrigin == <<0, 0>>

SearchDestinations == {<<0, c>> : c \in CoordValues}

Differing(q) == Cardinality({k \in 1..4 : q[k] # 0})

RouteCoords ==
    {q \in CoordValues \X CoordValues \X CoordValues \X CoordValues : Differing(q) <= 1}

CoordsOf(svc) == IF svc = "route_preference" THEN RouteCoords ELSE {NoCoords}

TotalRows == Len(tables["preference"]) + Len(tables["global_preference"])
                + Len(tables["route_preference"])

\* The two singletons that hold a lazily created client: _client is None
\* (0) or the client created by the n-th creation; created counts the
\* creations, closed keeps the clients that were closed, and closing says
\* that a close() is waiting for close_async to return.
ClientHolders == {"routing_service", "ai_agents_service"}

NoClient == 0

NoClientHeld == [client |-> NoClient, created |-> 0, closed |-> {}, closing |-> FALSE]

\* A _get_client that creates a client at every call.
GetClientAlwaysCreates(svc) ==
    [clients EXCEPT ![svc] =
        [@ EXCEPT !.client = clients[svc].created + 1,
                  !.created = clients[svc].created + 1]]

\* _get_client: a client is created when none is held; the held one is
\* returned.
GetClient(svc) ==
    IF clients[svc].client = NoClient
    THEN [clients EXCEPT ![svc] =
             [@ EXCEPT !.client = clients[svc].created + 1,
                       !.created = clients[svc].created + 1]]
    ELSE clients

IdleRequest ==
    [pc |-> "idle", endpoint |-> "", token |-> "", user |-> 0,
     num_in |-> NumOmitted, num_itineraries |-> 0, first |-> 0,
     prefs_in |-> None,
     origin |-> <<>>, destination |-> <<>>,
     user_preferences |-> <<>>, prefs_failed |-> FALSE,
     routing_calls |-> 0, insight_calls |-> 0,
     itineraries |-> <<>>, insight_prefs |-> None,
     insight |-> [kind |-> "none", response |-> <<>>],
     final_itineraries |-> <<>>,
     raised |-> "", status |-> 0, detail |-> "", body |-> <<>>,
     cause |-> "", insight_cause |-> "",
     arg |-> <<>>, upstream |-> <<>>, result |-> <<>>,
     health |-> <<>>,
     op |-> "", svc |-> "", preference_id |-> 0,
     prompt_in |-> <<>>, coords_in |-> <<>>]

Init ==
    /\ tables = [svc \in Services |-> <<>>]
    /\ next_id = [svc \in Services |-> 1]
    /\ req = [r \in Requests |-> IdleRequest]
    /\ clients = [svc \in ClientHolders |-> NoClientHeld]


\* ---------------------------------------------------------------- stores
Prompts(rows) == [i \in 1..Len(rows) |-> rows[i].prompt]

\* A query without the filter on the user.
GetAllPreferences(svc, user_id) == tables[svc]

\* <Service>.get_user_preferences: filter(user_id == user_id).all()
GetUserPreferences(svc, user_id) ==
    SelectSeq(tables[svc], LAMBDA row : row.user_id = user_id)

\* <Service>.get_preference_by_id: filter(id == preference_id).first()
GetPreferenceById(svc, preference_id) ==
    SelectSeq(tables[svc], LAMBDA row : row.id = preference_id)

\* RoutePreferenceService.get_preferences_by_coordinates: the exact-match
\* lookup on the user and the four stored coordinates.
GetPreferencesByCoordinates(user_id, from_lat, from_lon, to_lat, to_lon) ==
    SelectSeq(tables["route_preference"],
              LAMBDA row : /\ row.user_id = user_id
                           /\ row.coords[1] = from_lat
                           /\ row.coords[2] = from_lon
                           /\ row.coords[3] = to_lat
                           /\ row.coords[4] = to_lon)

\* The status create_preference ends with: 400 raised on a prompt that is
\* empty or strips to nothing, 201 (the endpoint's status) when it returns.
CreateStatus(prompt) ==
    IF prompt = <<>> \/ Strip(prompt) = <<>> THEN 400 ELSE 201

\* The status delete_preference ends with: 404 raised when no row has the
\* id, 403 when the row is another user's, 204 when it returns True.
DeleteStatus(svc, user_id, preference_id) ==
    LET found == GetPreferenceById(svc, preference_id)
    IN IF found = <<>> THEN 404
       ELSE IF found[1].user_id # user_id THEN 403
       ELSE 204

\* A create that stores the prompt as it was sent.
CreatePreferenceUnstripped(svc, user_id, prompt, coords) ==
    IF CreateStatus(prompt) = 400
    THEN UNCHANGED <<tables, next_id>>
    ELSE /\ tables' = [tables EXCEPT ![svc] =
                 Append(@, [id |-> next_id[svc], user_id |-> user_id,
                            prompt |-> prompt, coords |-> coords])]
         /\ next_id' = [next_id EXCEPT ![svc] = @ + 1]

\* <Service>.create_preference: 400 on a prompt that strips to nothing
\* (the stores are left alone), otherwise one row with the stripped prompt.
CreatePreference(svc, user_id, prompt, coords) ==
    IF CreateStatus(prompt) = 400
    THEN UNCHANGED <<tables, next_id>>
    ELSE /\ tables' = [tables EXCEPT ![svc] =
                 Append(@, [id |-> next_id[svc], user_id |-> user_id,
                            prompt |-> Strip(prompt), coords |-> coords])]
         /\ next_id' = [next_id EXCEPT ![svc] = @ + 1]

\* A delete that does not look at the owner of the row.
DeletePreferenceAnyOwner(svc, user_id, preference_id) ==
    /\ tables' = [tables EXCEPT ![svc] =
           SelectSeq(@, LAMBDA row : row.id # preference_id)]
    /\ UNCHANGED next_id

\* <Service>.delete_preference: 404 when no row has the id, 403 when the
\* row is another user's, otherwise the row is removed.
DeletePreference(svc, user_id, preference_id) ==
    /\ IF DeleteStatus(svc, user_id, preference_id) # 204
       THEN UNCHANGED tables
       ELSE tables' = [tables EXCEPT ![svc] =
                SelectSeq(@, LAMBDA row : row.id # preference_id)]
    /\ UNCHANGED next_id

\* ---------------------------------------------------------------- routing errors
RoutingErrors ==
    {"RoutingAPIError", "RoutingNetworkError", "RoutingDataError", "RoutingServiceError"}

\* isinstance over the exception classes of routing_service.py.
IsInstance(exc, cls) ==
    \/ exc = cls
    \/ cls = "Exception"
    \/ cls = "RoutingServiceError" /\ exc \in RoutingErrors

\* The except clauses with the base class caught first.
HandleSearchErrorBaseFirst(exc) ==
    IF IsInstance(exc, "RoutingServiceError")
    THEN [status |-> 500, detail |-> "Routing service error"]
    ELSE [status |-> 500,
          detail |-> "An unexpected error occurred while searching for routes"]

\* The except clauses without the final "except Exception": any other
\* exception leaves the handler as it is.
HandleSearchErrorNoCatchAll(exc) ==
    IF IsInstance(exc, "RoutingAPIError")
    THEN [status |-> 502, detail |-> "HSL API error"]
    ELSE IF IsInstance(exc, "RoutingNetworkError")
    THEN [status |-> 503, detail |-> "Network error connecting to HSL API"]
    ELSE IF IsInstance(exc, "RoutingDataError")
    THEN [status |-> 502, detail |-> "Failed to parse HSL API response"]
    ELSE IF exc \in RoutingErrors
    THEN [status |-> 500, detail |-> "Routing service error"]
    ELSE [status |-> 0, detail |-> ""]

\* The except clauses of search_routes, in their order.
HandleSearchError(exc) ==
    IF IsInstance(exc, "RoutingAPIError")
    THEN [status |-> 502, detail |-> "HSL API error"]
    ELSE IF IsInstance(exc, "RoutingNetworkError")
    THEN [status |-> 503, detail |-> "Network error connecting to HSL API"]
    ELSE IF IsInstance(exc, "RoutingDataError")
    THEN [status |-> 502, detail |-> "Failed to parse HSL API response"]
    ELSE IF IsInstance(exc, "RoutingServiceError")
    THEN [status |-> 500, detail |-> "Routing service error"]
    ELSE [status |-> 500,
          detail |-> "An unexpected error occurred while searching for routes"]

\* ---------------------------------------------------------------- get_itinaries
\* What execute_async and _parse_itinaries can raise: the classes named in
\* the except clauses of get_itinaries, and any other Exception.
LowLevelErrors ==
    {"TransportQueryError", "TimeoutException", "HTTPError", "KeyError",
     "ValueError", "TypeError", "Exception"}

\* The classes an exception is an instance of: httpx.TimeoutException is an
\* httpx.HTTPError, and everything is an Exception.
BasesOf(exc) ==
    {exc, "Exception"} \cup (IF exc = "TimeoutException" THEN {"HTTPError"} ELSE {})

IsA(exc, cls) == cls \in BasesOf(exc)

\* The except clauses without the one for KeyError / ValueError / TypeError.
GetItinariesRaisesNoDataClause(exc) ==
    IF IsA(exc, "TransportQueryError") THEN "RoutingAPIError"
    ELSE IF IsA(exc, "TimeoutException") THEN "RoutingNetworkError"
    ELSE IF IsA(exc, "HTTPError") THEN "RoutingNetworkError"
    ELSE "RoutingServiceError"

\* get_itinaries, lines 193-211: the except clauses in their order; the value
\* is the class of the exception that leaves the method.
GetItinariesRaises(exc) ==
    IF IsA(exc, "TransportQueryError") THEN "RoutingAPIError"
    ELSE IF IsA(exc, "TimeoutException") THEN "RoutingNetworkError"
    ELSE IF IsA(exc, "HTTPError") THEN "RoutingNetworkError"
    ELSE IF \/ IsA(exc, "KeyError")
            \/ IsA(exc, "ValueError")
            \/ IsA(exc, "TypeError") THEN "RoutingDataError"
    ELSE "RoutingServiceError"

\* ---------------------------------------------------------------- insight merge
\* LegWithInsight / ItineraryWithInsight: ai_insight is a required str.
LegWithInsightValid(leg) == leg.ai_insight # Absent

ItineraryWithInsightValid(it) ==
    /\ it.ai_insight # Absent
    /\ \A j \in 1..Len(it.legs) : LegWithInsightValid(it.legs[j])

\* A response model that also wants at least one itinerary.
RouteSearchResponseValidNonEmpty(its) ==
    /\ its # <<>>
    /\ \A i \in 1..Len(its) : ItineraryWithInsightValid(its[i])

\* RouteSearchResponse.itineraries: List[ItineraryWithInsight]
RouteSearchResponseValid(its) ==
    \A i \in 1..Len(its) : ItineraryWithInsightValid(its[i])

\* The positional merge of an insight response onto the itineraries: entry i
\* gives itinerary i its text and leg j its leg text when there is one; the
\* unmatched tail keeps no insight text.
MergeLegs(legs, leg_insights) ==
    [j \in 1..Len(legs) |->
        IF j <= Len(leg_insights)
        THEN [legs[j] EXCEPT !.ai_insight = leg_insights[j]]
        ELSE legs[j]]

GetItinerariesWithInsights(itineraries, response) ==
    [i \in 1..Len(itineraries) |->
        IF i <= Len(response)
        THEN [itineraries[i] EXCEPT
                 !.ai_insight = response[i].ai_insight,
                 !.legs = MergeLegs(@, response[i].leg_insights)]
        ELSE itineraries[i]]

\* ---------------------------------------------------------------- ai_agents_service
\* What client.post ends with: an exception (httpx.TimeoutException,
\* httpx.RequestError, any other) or a response with a status code and a
\* JSON body.
AiErrors == {"TimeoutException", "RequestError", "Exception"}

Raises(exc) == [kind |-> "raises", exc |-> exc, status_code |-> 0, json |-> <<>>]

Responds(status_code, json) ==
    [kind |-> "response", exc |-> "", status_code |-> status_code, json |-> json]

\* A body the response schema does not validate.
MalformedBody == [well_formed |-> FALSE]

\* ItineraryInsightResponse: ai_description: Optional[str],
\* ai_insights: List[Optional[str]].
InsightTexts(n) == [1..n -> {Absent} \cup {<<"leg", j>> : j \in 1..(MaxLegs + 1)}]

ItineraryInsightBodies ==
    {[well_formed |-> TRUE, ai_description |-> d, ai_insights |-> ins] :
        d \in {Absent, <<"description">>},
        ins \in UNION {InsightTexts(n) : n \in 0..(MaxLegs + 1)}}

\* ItineraryInsightsResponse: itenerary_insights: List[ItineraryInsight].
ItineraryInsightsBodies ==
    {[well_formed |-> TRUE, itenerary_insights |-> resp] : resp \in InsightResponses}

StatusCodes == {200, 500}

ItineraryInsightUpstreams ==
    {Raises(exc) : exc \in AiErrors}
        \cup {Responds(c, b) : c \in StatusCodes,
                               b \in ItineraryInsightBodies \cup {MalformedBody}}

ItinerariesInsightsUpstreams ==
    {Raises(exc) : exc \in AiErrors}
        \cup {Responds(c, b) : c \in StatusCodes,
                               b \in ItineraryInsightsBodies \cup {MalformedBody}}

\* The fields the schemas declare (app/schemas/itinary.py); assigning to any
\* other attribute of a model raises ValueError.
LegFields ==
    {"mode", "start", "end", "duration", "distance", "from_place", "to_place", "route"}

ItineraryFields == {"start", "end", "duration", "walk_distance", "walk_time", "legs"}

SetAttrRaises(fields, name) == name \notin fields

\* The attribute assignments of lines 140-147, when the models accept them.
Enriched(itinerary, response_data) ==
    [f \in (DOMAIN itinerary) \cup {"ai_description"} |->
        IF f = "ai_description" THEN response_data.ai_description
        ELSE IF f = "legs"
        THEN [idx \in 1..Len(itinerary.legs) |->
                 [itinerary.legs[idx] EXCEPT !.ai_insight =
                     IF idx <= Len(response_data.ai_insights)
                     THEN response_data.ai_insights[idx]
                     ELSE Absent]]
        ELSE itinerary[f]]

\* A get_itinerary_insight that lets a timeout through.
GetItineraryInsightRaisesTimeout(itinerary, upstream) ==
    IF upstream.kind = "raises" /\ upstream.exc = "TimeoutException"
    THEN [raised |-> "TimeoutException", itinerary |-> itinerary]
    ELSE [raised |-> "", itinerary |-> itinerary]

\* AiAgentsService.get_itinerary_insight: what the call ends with and the
\* itinerary object after it.  Every exception raised inside the try is
\* logged and dropped, the one of an attribute assignment included.
GetItineraryInsight(itinerary, upstream) ==
    IF upstream.kind = "raises"
    THEN [raised |-> "", itinerary |-> itinerary]
    ELSE IF upstream.status_code = 200
    THEN IF ~upstream.json.well_formed
         THEN [raised |-> "", itinerary |-> itinerary]
         ELSE IF SetAttrRaises(ItineraryFields, "ai_description")
         THEN [raised |-> "", itinerary |-> itinerary]
         ELSE IF itinerary.legs # <<>> /\ SetAttrRaises(LegFields, "ai_insight")
         THEN [raised |-> "",
               itinerary |-> [f \in (DOMAIN itinerary) \cup {"ai_description"} |->
                                 IF f = "ai_description"
                                 THEN upstream.json.ai_description
                                 ELSE itinerary[f]]]
         ELSE [raised |-> "", itinerary |-> Enriched(itinerary, upstream.json)]
    ELSE [raised |-> "", itinerary |-> itinerary]

\* AiAgentsService.get_itineraries_insights: the response data on a 200 that
\* validates; an exception to the caller in every other case.
GetItinerariesInsights(upstream) ==
    IF upstream.kind = "raises"
    THEN IF upstream.exc = "TimeoutException"
         THEN [raised |-> "Exception", value |-> <<>>]
         ELSE [raised |-> upstream.exc, value |-> <<>>]
    ELSE IF upstream.status_code = 200
    THEN IF upstream.json.well_formed
         THEN [raised |-> "", value |-> <<upstream.json>>]
         ELSE [raised |-> "ValidationError", value |-> <<>>]
    ELSE [raised |-> "Exception", value |-> <<>>]

\* ---------------------------------------------------------------- search_routes
\* An aggregation that adds every route preference of the user, whatever its
\* coordinates.
CollectUserPreferencesAllRoutes(prefs_in, user_id, read_fails) ==
    (IF Truthy(prefs_in) THEN prefs_in.list ELSE <<>>)
        \o (IF read_fails THEN <<>>
            ELSE Prompts(GetUserPreferences("preference", user_id)))
        \o Prompts(GetUserPreferences("route_preference", user_id))

\* An aggregation that reads the stored preferences of every user.
CollectUserPreferencesAnyUser(prefs_in, user_id, read_fails) ==
    (IF Truthy(prefs_in) THEN prefs_in.list ELSE <<>>)
        \o (IF read_fails THEN <<>> ELSE Prompts(tables["preference"]))

\* Lines 69-83: the preference strings of the request, then the stored ones
\* of the user; a failing read of the stored ones is logged and skipped.
CollectUserPreferences(prefs_in, user_id, read_fails) ==
    (IF Truthy(prefs_in) THEN prefs_in.list ELSE <<>>)
        \o (IF read_fails THEN <<>>
            ELSE Prompts(GetUserPreferences("preference", user_id)))

\* Line 97: what is handed to the insight adapter,
\* `user_preferences if user_preferences else None`.
InsightPreferences(user_preferences) ==
    IF user_preferences # <<>> THEN Some(user_preferences) ELSE None

\* Lines 58-92: the handler of an authenticated, validated request up to the
\* await of routing_service.get_itinaries(first=request.num_itineraries).
SearchStart(r, user_id, num_in, prefs_in, origin, destination, read_fails) ==
    /\ req[r].pc = "idle"
    /\ req' = [req EXCEPT ![r] =
          [IdleRequest EXCEPT
              !.pc = "routing", !.endpoint = "routes_search", !.token = "valid",
              !.user = user_id, !.num_in = num_in,
              !.num_itineraries = NumItineraries(num_in),
              !.first = NumItineraries(num_in),
              !.prefs_in = prefs_in,
              !.origin = origin, !.destination = destination,
              !.prefs_failed = read_fails,
              !.user_preferences =
                  CollectUserPreferences(prefs_in, user_id, read_fails),
              !.routing_calls = 1]]
    /\ clients' = GetClient("routing_service")
    /\ UNCHANGED <<tables, next_id>>

\* Lines 119-152: a raised exception becomes an HTTPException.
Failed(rq, exc) ==
    [rq EXCEPT !.pc = "done", !.raised = exc,
               !.status = HandleSearchError(exc).status,
               !.detail = HandleSearchError(exc).detail]

\* Lines 110-117: RouteSearchResponse is built inside the outer try, so a
\* validation error of the response model is handled by "except Exception".
Respond(rq, final) ==
    IF RouteSearchResponseValid(final)
    THEN [rq EXCEPT !.pc = "done", !.final_itineraries = final, !.status = 200,
                    !.body = <<[origin |-> rq.origin,
                                destination |-> rq.destination,
                                itineraries |-> final]>>]
    ELSE Failed([rq EXCEPT !.final_itineraries = final], "ValidationError")

\* A routing call whose result is kept in one place for all the searches
\* that wait for their insights.
RoutingReturnsShared(r, its) ==
    /\ req[r].pc = "routing"
    /\ req' = [q \in DOMAIN req |->
          IF q = r
          THEN [req[q] EXCEPT !.pc = "insight", !.itineraries = its,
                              !.insight_calls = @ + 1,
                              !.insight_prefs = IF req[r].user_preferences # <<>>
                                                THEN Some(req[r].user_preferences)
                                                ELSE None]
          ELSE IF req[q].pc = "insight"
          THEN [req[q] EXCEPT !.itineraries = its]
          ELSE req[q]]
    /\ clients' = GetClient("ai_agents_service")
    /\ UNCHANGED <<tables, next_id>>

\* Lines 87-98: get_itinaries returned; the insight call is awaited next.
RoutingReturns(r, its) ==
    /\ req[r].pc = "routing"
    /\ req' = [req EXCEPT ![r] =
          [@ EXCEPT !.pc = "insight", !.itineraries = its,
                    !.insight_calls = @ + 1,
                    !.insight_prefs = InsightPreferences(req[r].user_preferences)]]
    /\ clients' = GetClient("ai_agents_service")
    /\ UNCHANGED <<tables, next_id>>

\* A routing failure that is swallowed: the pipeline goes on with no
\* itineraries.
RoutingRaisesGoesOn(r, exc) ==
    /\ req[r].pc = "routing"
    /\ req' = [req EXCEPT ![r] =
          [@ EXCEPT !.pc = "insight", !.raised = exc, !.itineraries = <<>>,
                    !.insight_calls = @ + 1]]
    /\ UNCHANGED <<tables, next_id, clients>>

\* get_itinaries raised one of the routing errors.
RoutingRaises(r, exc) ==
    /\ req[r].pc = "routing"
    /\ req' = [req EXCEPT ![r] = Failed(@, exc)]
    /\ UNCHANGED <<tables, next_id, clients>>

\* The insight call returned and its result is dropped.
InsightReturnsDiscards(r, response) ==
    /\ req[r].pc = "insight"
    /\ LET rq == [req[r] EXCEPT !.insight = [kind |-> "returned", response |-> response]]
       IN req' = [req EXCEPT ![r] = Respond(rq, rq.itineraries)]
    /\ UNCHANGED <<tables, next_id, clients>>

\* Lines 96-103, 110-117: the insight call returned.
InsightReturns(r, response) ==
    /\ req[r].pc = "insight"
    /\ LET rq == [req[r] EXCEPT !.insight = [kind |-> "returned", response |-> response]]
           with == GetItinerariesWithInsights(rq.itineraries, response)
           final == IF with # <<>> THEN with ELSE rq.itineraries
       IN req' = [req EXCEPT ![r] = Respond(rq, final)]
    /\ UNCHANGED <<tables, next_id, clients>>

\* Lines 105-108, 110-117: the insight call raised.
InsightRaises(r) ==
    /\ req[r].pc = "insight"
    /\ LET rq == [req[r] EXCEPT !.insight = [kind |-> "raised", response |-> <<>>]]
       IN req' = [req EXCEPT ![r] = Respond(rq, rq.itineraries)]
    /\ UNCHANGED <<tables, next_id, clients>>

\* ---------------------------------------------------------------- requests
\* The protected endpoints and the router each one is declared on.
ProtectedEndpoints ==
    {"routes_search", "insight_iteneraries", "preferences_list",
     "preferences_create", "preferences_delete", "route_preferences_list",
     "route_preferences_create", "route_preferences_delete", "users_me"}

RouterOf(ep) ==
    CASE ep = "routes_search" -> "routes"
      [] ep = "insight_iteneraries" -> "insights"
      [] ep \in {"preferences_list", "preferences_create", "preferences_delete"}
            -> "preferences"
      [] ep \in {"route_preferences_list", "route_preferences_create",
                 "route_preferences_delete"} -> "route_preferences"
      [] ep = "users_me" -> "users"
      [] ep = "health" -> "health"

\* api.py: the routers included in api_router.
IncludedRouters == {"health", "auth", "users", "preferences", "routes"}

\* The Authorization header of a request: none, a bearer token that does not
\* decode, or the token of a user.
NoToken == [kind |-> "missing", user |-> 0]
InvalidToken == [kind |-> "invalid", user |-> 0]
BearerToken(u) == [kind |-> "valid", user |-> u]

Tokens == {NoToken, InvalidToken} \cup {BearerToken(u) : u \in Users}

\* oauth2_scheme and auth_service.get_current_user: 401 without a token, 403
\* for a token that does not decode, 0 when the user is resolved.
GetCurrentUser(token) ==
    IF token.kind = "missing" THEN 401
    ELSE IF token.kind = "invalid" THEN 403
    ELSE 0

\* What answers a request before its handler runs: 404 when no route is
\* registered for it, the status of the authentication dependency otherwise
\* (0: the handler is called).
RequestGate(ep, token) ==
    IF RouterOf(ep) \notin IncludedRouters THEN 404 ELSE GetCurrentUser(token)

\* A request answered without its handler being called.
Reject(r, ep, token, num_in, status) ==
    /\ req[r].pc = "idle"
    /\ req' = [req EXCEPT ![r] =
          [IdleRequest EXCEPT !.pc = "done", !.endpoint = ep,
                              !.token = token.kind, !.num_in = num_in,
                              !.status = status]]
    /\ UNCHANGED <<tables, next_id, clients>>

\* POST /routes/search: route lookup and authentication, then the validation
\* of the body (422), then the handler.
SearchRequest(r, token, num_in, prefs_in, origin, destination, read_fails) ==
    IF RequestGate("routes_search", token) # 0
    THEN Reject(r, "routes_search", token, num_in, RequestGate("routes_search", token))
    ELSE IF ~ValidNumItineraries(num_in)
    THEN Reject(r, "routes_search", token, num_in, 422)
    ELSE SearchStart(r, token.user, num_in, prefs_in, origin, destination, read_fails)

\* A health check that is content with one healthy component.
HealthCheckAny(r, database_healthy, routing_service_healthy, ai_agents_service_healthy) ==
    /\ req[r].pc = "idle"
    /\ LET overall_healthy == \/ database_healthy
                              \/ routing_service_healthy
                              \/ ai_agents_service_healthy
           response == [healthy |-> overall_healthy,
                        database |-> database_healthy,
                        routing_service |-> routing_service_healthy,
                        ai_agents_service |-> ai_agents_service_healthy]
       IN req' = [req EXCEPT ![r] =
             [IdleRequest EXCEPT !.pc = "done", !.endpoint = "health",
                                 !.status = IF overall_healthy THEN 200 ELSE 503,
                                 !.health = <<response>>]]
    /\ clients' = GetClient("ai_agents_service")
    /\ UNCHANGED <<tables, next_id>>

\* GET /health: the three component checks, their conjunction, 200 or 503;
\* the response (the detail of the 503) carries each component's health.
HealthCheck(r, database_healthy, routing_service_healthy, ai_agents_service_healthy) ==
    /\ req[r].pc = "idle"
    /\ LET overall_healthy == /\ database_healthy
                              /\ routing_service_healthy
                              /\ ai_agents_service_healthy
           response == [healthy |-> overall_healthy,
                        database |-> database_healthy,
                        routing_service |-> routing_service_healthy,
                        ai_agents_service |-> ai_agents_service_healthy]
       IN req' = [req EXCEPT ![r] =
             [IdleRequest EXCEPT !.pc = "done", !.endpoint = "health",
                                 !.status = IF overall_healthy THEN 200 ELSE 503,
                                 !.health = <<response>>]]
    /\ clients' = GetClient("ai_agents_service")
    /\ UNCHANGED <<tables, next_id>>

\* ---------------------------------------------------------------- adapter calls
\* A routing failure that is answered by calling the adapter again.
GetItinariesFailsRetries(r, exc) ==
    /\ req[r].pc = "routing"
    /\ req' = [req EXCEPT ![r] =
          IF req[r].routing_calls < 2
          THEN [@ EXCEPT !.routing_calls = @ + 1, !.cause = exc]
          ELSE Failed([@ EXCEPT !.cause = exc], GetItinariesRaises(exc))]
    /\ UNCHANGED <<tables, next_id, clients>>

\* The awaited get_itinaries fails: execute_async or the parsing raised exc,
\* the method raises the routing error it is classified as, and the handler
\* answers with the HTTPException of that class.
GetItinariesFails(r, exc) ==
    /\ req[r].pc = "routing"
    /\ req' = [req EXCEPT ![r] =
          Failed([@ EXCEPT !.cause = exc], GetItinariesRaises(exc))]
    /\ UNCHANGED <<tables, next_id, clients>>

\* The awaited insight call fails: the call to the insight provider ended
\* with an upstream outcome that get_itineraries_insights raises on, and the
\* handler goes on with the routed itineraries (lines 105-108, 110-117).
InsightCallFails(r, upstream) ==
    /\ req[r].pc = "insight"
    /\ GetItinerariesInsights(upstream).raised # ""
    /\ LET rq == [req[r] EXCEPT
                     !.insight = [kind |-> "raised", response |-> <<>>],
                     !.upstream = <<upstream>>,
                     !.insight_cause = GetItinerariesInsights(upstream).raised]
       IN req' = [req EXCEPT ![r] = Respond(rq, rq.itineraries)]
    /\ UNCHANGED <<tables, next_id, clients>>

\* A direct call of RoutingService.get_itinaries: the parsed list, or the
\* routing error the failure is classified as.
GetItinariesCall(r, outcome) ==
    /\ req[r].pc = "idle"
    /\ req' = [req EXCEPT ![r] =
          [IdleRequest EXCEPT
              !.pc = "done", !.op = "get_itinaries", !.routing_calls = 1,
              !.cause = IF outcome.kind = "raises" THEN outcome.exc ELSE "",
              !.raised = IF outcome.kind = "raises"
                         THEN GetItinariesRaises(outcome.exc) ELSE "",
              !.itineraries = IF outcome.kind = "raises" THEN <<>> ELSE outcome.json]]
    /\ clients' = GetClient("routing_service")
    /\ UNCHANGED <<tables, next_id>>

\* A direct call of AiAgentsService.get_itinerary_insight on an itinerary.
GetItineraryInsightCall(r, itinerary, upstream) ==
    /\ req[r].pc = "idle"
    /\ req' = [req EXCEPT ![r] =
          [IdleRequest EXCEPT
              !.pc = "done", !.op = "get_itinerary_insight",
              !.arg = <<itinerary>>, !.upstream = <<upstream>>,
              !.raised = GetItineraryInsight(itinerary, upstream).raised,
              !.result = <<GetItineraryInsight(itinerary, upstream).itinerary>>]]
    /\ clients' = GetClient("ai_agents_service")
    /\ UNCHANGED <<tables, next_id>>

\* A direct call of AiAgentsService.get_itineraries_insights.
GetItinerariesInsightsCall(r, upstream) ==
    /\ req[r].pc = "idle"
    /\ req' = [req EXCEPT ![r] =
          [IdleRequest EXCEPT
              !.pc = "done", !.op = "get_itineraries_insights",
              !.upstream = <<upstream>>,
              !.raised = GetItinerariesInsights(upstream).raised,
              !.result = GetItinerariesInsights(upstream).value]]
    /\ clients' = GetClient("ai_agents_service")
    /\ UNCHANGED <<tables, next_id>>

\* POST /insight/iteneraries: route lookup and authentication, then the
\* handler: the response data of the service, or 500 on any exception.
InsightsRequest(r, token, upstream) ==
    IF RequestGate("insight_iteneraries", token) # 0
    THEN Reject(r, "insight_iteneraries", token, NumOmitted,
                RequestGate("insight_iteneraries", token))
    ELSE /\ req[r].pc = "idle"
         /\ LET insights == GetItinerariesInsights(upstream)
            IN req' = [req EXCEPT ![r] =
                  [IdleRequest EXCEPT
                      !.pc = "done", !.endpoint = "insight_iteneraries",
                      !.token = token.kind, !.user = token.user,
                      !.upstream = <<upstream>>,
                      !.raised = insights.raised,
                      !.status = IF insights.raised # "" THEN 500 ELSE 200,
                      !.detail = IF insights.raised # ""
                                 THEN "An unexpected error occurred while generating insights"
                                 ELSE "",
                      !.body = insights.value]]
         /\ clients' = GetClient("ai_agents_service")
         /\ UNCHANGED <<tables, next_id>>

\* RoutingService.close up to its await: nothing happens when no client
\* is held; the held client is closed otherwise.
CloseBegins(svc) ==
    /\ ~clients[svc].closing
    /\ clients' = IF clients[svc].client # NoClient
                  THEN [clients EXCEPT ![svc] =
                           [@ EXCEPT !.closed = @ \cup {clients[svc].client},
                                     !.closing = TRUE]]
                  ELSE clients
    /\ UNCHANGED <<tables, next_id, req>>

\* RoutingService.close after its await: _client is None again.
CloseEnds(svc) ==
    /\ clients[svc].closing
    /\ clients' = [clients EXCEPT ![svc] =
                      [@ EXCEPT !.client = NoClient, !.closing = FALSE]]
    /\ UNCHANGED <<tables, next_id, req>>

\* ---------------------------------------------------------------- specification
RequestPrefs ==
    {None, Some(<<>>), Some(<< <<"a", "a">>, <<"a">> >>)}

Create ==
    \E svc \in Services, u \in Users, p \in PromptInputs :
        \E c \in CoordsOf(svc) :
            /\ TotalRows < MaxRows
            /\ CreatePreference(svc, u, p, c)
            /\ UNCHANGED <<req, clients>>

Start ==
    \E r \in Requests, u \in Users, p \in RequestPrefs,
       d \in SearchDestinations, f \in BOOLEAN :
        SearchStart(r, u, NumOmitted, p, SearchOrigin, d, f)

Routed ==
    \E r \in Requests, its \in RoutedLists : RoutingReturns(r, its)

RoutingFailed ==
    \E r \in Requests, exc \in RoutingErrors : RoutingRaises(r, exc)

Insighted ==
    \E r \in Requests, resp \in InsightResponses : InsightReturns(r, resp)

InsightFailed ==
    \E r \in Requests : InsightRaises(r)

Next ==
    \/ Create
    \/ Start
    \/ Routed
    \/ RoutingFailed
    \/ Insighted
    \/ InsightFailed

Spec == Init /\ [][Next]_vars

\* The preference stores under create and delete, and the aggregation step
\* of a search that reads them.
CreateStored ==
    \E svc \in Services, u \in Users, p \in PromptInputs :
        \E c \in CoordsOf(svc) :
            /\ TotalRows < MaxStoreRows
            /\ next_id[svc] <= MaxId
            /\ CreatePreference(svc, u, p, c)
            /\ UNCHANGED <<req, clients>>

DeleteStored ==
    \E svc \in Services, u \in Users, id \in 1..MaxId :
        DeletePreference(svc, u, id) /\ UNCHANGED <<req, clients>>

NextPrefs ==
    \/ CreateStored
    \/ DeleteStored
    \/ Start

SpecPrefs == Init /\ [][NextPrefs]_vars

\* The calls of the preference services with their outcome kept: a call is
\* made, its outcome is seen, the next call is made.
CreateCall(r, svc, user_id, prompt, coords) ==
    /\ req[r].pc = "idle"
    /\ CreatePreference(svc, user_id, prompt, coords)
    /\ req' = [req EXCEPT ![r] =
          [IdleRequest EXCEPT !.pc = "done", !.op = "create_preference",
                              !.svc = svc, !.user = user_id,
                              !.prompt_in = prompt, !.coords_in = coords,
                              !.status = CreateStatus(prompt)]]
    /\ UNCHANGED clients

DeleteCall(r, svc, user_id, preference_id) ==
    /\ req[r].pc = "idle"
    /\ DeletePreference(svc, user_id, preference_id)
    /\ req' = [req EXCEPT ![r] =
          [IdleRequest EXCEPT !.pc = "done", !.op = "delete_preference",
                              !.svc = svc, !.user = user_id,
                              !.preference_id = preference_id,
                              !.status = DeleteStatus(svc, user_id, preference_id)]]
    /\ UNCHANGED clients

CallReturns(r) ==
    /\ req[r].pc = "done"
    /\ req[r].op # ""
    /\ req' = [req EXCEPT ![r] = IdleRequest]
    /\ UNCHANGED <<tables, next_id, clients>>

CreateCalled ==
    \E r \in Requests, svc \in Services, u \in Users, p \in PromptInputs :
        \E c \in CoordsOf(svc) :
            /\ TotalRows < MaxStoreRows
            /\ next_id[svc] <= MaxId
            /\ CreateCall(r, svc, u, p, c)

DeleteCalled ==
    \E r \in Requests, svc \in Services, u \in Users, id \in 1..MaxId :
        DeleteCall(r, svc, u, id)

Returned ==
    \E r \in Requests : CallReturns(r)

NextStore ==
    \/ CreateCalled
    \/ DeleteCalled
    \/ Returned

SpecStore == Init /\ [][NextStore]_vars

\* The requests as they arrive: any endpoint, any Authorization header, any
\* num_itineraries; a search that is let through runs its pipeline.
Search ==
    \E r \in Requests, tok \in Tokens, n \in NumInputs, p \in RequestPrefs,
       d \in SearchDestinations, f \in BOOLEAN :
        SearchRequest(r, tok, n, p, SearchOrigin, d, f)

Rejected ==
    \E r \in Requests, ep \in ProtectedEndpoints \ {"routes_search"}, tok \in Tokens :
        /\ RequestGate(ep, tok) # 0
        /\ Reject(r, ep, tok, NumOmitted, RequestGate(ep, tok))

Health ==
    \E r \in Requests, db \in BOOLEAN, rs \in BOOLEAN, ai \in BOOLEAN :
        HealthCheck(r, db, rs, ai)

NextRequests ==
    \/ Search
    \/ Rejected
    \/ Health
    \/ Routed
    \/ RoutingFailed
    \/ Insighted
    \/ InsightFailed

SpecRequests == Init /\ [][NextRequests]_vars

\* The pipeline with the causes of its failures: what the provider call of
\* each adapter ended with.
RoutingCallFailed ==
    \E r \in Requests, exc \in LowLevelErrors : GetItinariesFails(r, exc)

InsightCallFailed ==
    \E r \in Requests, up \in ItinerariesInsightsUpstreams : InsightCallFails(r, up)

NextCalls ==
    \/ Start
    \/ Routed
    \/ RoutingCallFailed
    \/ Insighted
    \/ InsightCallFailed

SpecCalls == Init /\ [][NextCalls]_vars

\* The adapters called on their own, the insights endpoint, and the closing
\* of the routing client.
GetItinariesOutcomes ==
    {Raises(exc) : exc \in LowLevelErrors} \cup {Responds(200, its) : its \in RoutedLists}

RoutingCalled ==
    \E r \in Requests, outcome \in GetItinariesOutcomes : GetItinariesCall(r, outcome)

ItineraryInsightCalled ==
    \E r \in Requests, it \in ItinPool, up \in ItineraryInsightUpstreams :
        GetItineraryInsightCall(r, it, up)

ItinerariesInsightsCalled ==
    \E r \in Requests, up \in ItinerariesInsightsUpstreams :
        GetItinerariesInsightsCall(r, up)

InsightsRequested ==
    \E r \in Requests, tok \in Tokens, up \in ItinerariesInsightsUpstreams :
        InsightsRequest(r, tok, up)

CloseBegun ==
    /\ clients["routing_service"].created < MaxClients
    /\ CloseBegins("routing_service")

CloseEnded ==
    CloseEnds("routing_service")

Finished ==
    \E r \in Requests :
        /\ req[r].pc = "done"
        /\ req' = [req EXCEPT ![r] = IdleRequest]
        /\ UNCHANGED <<tables, next_id, clients>>

NextAdapters ==
    \/ RoutingCalled
    \/ ItineraryInsightCalled
    \/ ItinerariesInsightsCalled
    \/ InsightsRequested
    \/ CloseBegun
    \/ CloseEnded
    \/ Finished

SpecAdapters == Init /\ [][NextAdapters]_vars

\* Two searches in flight at once: the steps of one are interleaved with
\* the steps of the other at the two awaits.
ConcurrentRequests == 1..(MaxRequests + 1)

InitConcurrent ==
    /\ tables = [svc \in Services |-> <<>>]
    /\ next_id = [svc \in Services |-> 1]
    /\ req = [r \in ConcurrentRequests |-> IdleRequest]
    /\ clients = [svc \in ClientHolders |-> NoClientHeld]

StartConcurrent ==
    \E r \in ConcurrentRequests, u \in Users :
        SearchStart(r, u, NumOmitted, None, SearchOrigin, SearchOrigin, FALSE)

RoutedConcurrent ==
    \E r \in ConcurrentRequests, its \in RoutedLists : RoutingReturns(r, its)

RoutingFailedConcurrent ==
    \E r \in ConcurrentRequests : GetItinariesFails(r, "TimeoutException")

InsightedConcurrent ==
    \E r \in ConcurrentRequests, resp \in InsightResponses : InsightReturns(r, resp)

InsightFailedConcurrent ==
    \E r \in ConcurrentRequests : InsightRaises(r)

NextConcurrent ==
    \/ StartConcurrent
    \/ RoutedConcurrent
    \/ RoutingFailedConcurrent
    \/ InsightedConcurrent
    \/ InsightFailedConcurrent

SpecConcurrent == InitConcurrent /\ [][NextConcurrent]_vars

\* Searches started and handed over while the users' stored preferences
\* (the table search_routes reads) come and go.
PreferenceStored ==
    \E u \in Users, p \in PromptInputs :
        /\ TotalRows < MaxStoreRows
        /\ next_id["preference"] <= MaxId
        /\ CreatePreference("preference", u, p, NoCoords)
        /\ UNCHANGED <<req, clients>>

PreferenceRemoved ==
    \E u \in Users, id \in 1..MaxId :
        DeletePreference("preference", u, id) /\ UNCHANGED <<req, clients>>

NextOwn ==
    \/ PreferenceStored
    \/ PreferenceRemoved
    \/ Start
    \/ Routed

SpecOwn == Init /\ [][NextOwn]_vars


\* ---------------------------------------------------------------- vocabulary of the claims
Done(r) == req[r].pc = "done"

\* The routing call of request r returned a list (the insight call was made).
Fetched(r) == req[r].pc = "insight" \/ (Done(r) /\ req[r].insight.kind # "none")

Succeeded(r) == Done(r) /\ req[r].status = 200 /\ Len(req[r].body) = 1

ResponseItineraries(r) == req[r].body[1].itineraries

\* The steps of a request: the aggregation up to the routing call, and the
\* hand-over of the aggregated list to the insight call.
StepStart(r) == req[r].pc = "idle" /\ req'[r].pc = "routing"

StepHandOver(r) == req[r].pc = "routing" /\ req'[r].pc = "insight"

\* The three preference sources of a request rq, read from the stores.
FromRequest(rq) == IF Truthy(rq.prefs_in) THEN rq.prefs_in.list ELSE <<>>

FromGlobal(rq) == Prompts(GetUserPreferences("preference", rq.user))

FromRoute(rq) ==
    Prompts(GetPreferencesByCoordinates(rq.user, rq.origin[1], rq.origin[2],
                                        rq.destination[1], rq.destination[2]))

\* ---------------------------------------------------------------- C1
\* C1: whenever the insight call raises, the request still answers 200 with
\* every routed itinerary and leg, unmodified and without insight fields.
C1_InsightFailureDegrades ==
    \A r \in Requests :
        (Done(r) /\ req[r].insight.kind = "raised")
            => /\ Succeeded(r)
               /\ ResponseItineraries(r) = req[r].itineraries

\* ---------------------------------------------------------------- C2
\* C2: for every outcome of the insight call the response lists the routed
\* itineraries, as many and in the same order, with their legs in order.
C2_OrderPreserved ==
    \A r \in Requests :
        (Done(r) /\ req[r].insight.kind # "none")
            => /\ Succeeded(r)
               /\ Plain(ResponseItineraries(r)) = req[r].itineraries

\* ---------------------------------------------------------------- C3
\* C3: with N routed itineraries and M < N insight entries the request
\* succeeds with N itineraries, the first M with insight text, the rest without.
C3_PositionalMerge ==
    \A r \in Requests :
        (/\ Done(r)
         /\ req[r].insight.kind = "returned"
         /\ Len(req[r].insight.response) < Len(req[r].itineraries))
            => /\ Succeeded(r)
               /\ Len(ResponseItineraries(r)) = Len(req[r].itineraries)
               /\ \A i \in 1..Len(req[r].itineraries) :
                      (ResponseItineraries(r)[i].ai_insight # Absent)
                          <=> (i <= Len(req[r].insight.response))


\* ---------------------------------------------------------------- C4
\* C4: a routing failure fails the request, and the status and detail it is
\* answered with differ from those of each of the other three failure classes.
C4_RoutingFailureClasses ==
    \A r \in Requests :
        (Done(r) /\ req[r].raised \in RoutingErrors)
            => /\ req[r].status \in {500, 502, 503}
               /\ req[r].body = <<>>
               /\ \A exc \in RoutingErrors \ {req[r].raised} :
                      <<HandleSearchError(exc).status, HandleSearchError(exc).detail>>
                          # <<req[r].status, req[r].detail>>

C4_Witness ==
    \E r \in Requests :
        Done(r) /\ req[r].raised = "RoutingDataError" /\ req[r].status = 502

\* ---------------------------------------------------------------- C5
\* C5: the list handed to the insight call is the request's preferences, then
\* the user's stored global ones, then the user's route preferences stored
\* under the searched coordinates, each in its order, duplicates kept.
C5_AggregationOrder ==
    [][\A r \in Requests :
        /\ (StepStart(r) /\ ~req'[r].prefs_failed)
              => req'[r].user_preferences
                    = FromRequest(req'[r]) \o FromGlobal(req'[r]) \o FromRoute(req'[r])
        /\ StepHandOver(r)
              => req'[r].insight_prefs.list = req[r].user_preferences]_vars

\* ---------------------------------------------------------------- C6
\* C6: when the read of the stored preferences raises, that source gives no
\* string, the other sources are still handed over, the routing and insight
\* calls are still made, and the request completes successfully.
C6_FailedSourceSkipped ==
    [][\A r \in Requests :
        /\ (StepStart(r) /\ req'[r].prefs_failed)
              => /\ req'[r].user_preferences
                        = FromRequest(req'[r]) \o FromRoute(req'[r])
                 /\ req'[r].routing_calls = 1
        /\ (StepHandOver(r) /\ req[r].prefs_failed)
              => /\ req'[r].insight_calls = 1
                 /\ req'[r].insight_prefs.list = req[r].user_preferences
        /\ (req[r].prefs_failed /\ req[r].pc = "insight" /\ req'[r].pc = "done")
              => req'[r].status = 200]_vars

\* ---------------------------------------------------------------- C7
\* C7: when the three sources together give no string the insight call gets
\* None, never an empty list; otherwise it gets the non-empty list of them.
C7_AbsentNotEmpty ==
    [][\A r \in Requests :
        /\ (StepStart(r) /\ ~req'[r].prefs_failed)
              => req'[r].user_preferences
                    = FromRequest(req'[r]) \o FromGlobal(req'[r]) \o FromRoute(req'[r])
        /\ StepHandOver(r)
              => req'[r].insight_prefs
                    = IF req[r].user_preferences = <<>>
                      THEN None
                      ELSE Some(req[r].user_preferences)]_vars

\* ---------------------------------------------------------------- C9
\* C9: zero routed itineraries give a 200 response with an empty list.
C9_EmptyResultSucceeds ==
    \A r \in Requests :
        (Done(r) /\ Fetched(r) /\ req[r].itineraries = <<>>)
            => Succeeded(r) /\ ResponseItineraries(r) = <<>>

C9_Witness ==
    \E r \in Requests :
        /\ Succeeded(r)
        /\ req[r].itineraries = <<>>
        /\ req[r].insight.kind = "raised"

\* ---------------------------------------------------------------- C10
\* C10: an insight call that returns no insight for a non-empty routed list
\* gives a 200 response with the routed itineraries and no insight field.
C10_EmptyInsightDegrades ==
    \A r \in Requests :
        (/\ Done(r)
         /\ req[r].insight.kind = "returned"
         /\ req[r].insight.response = <<>>
         /\ req[r].itineraries # <<>>)
            => /\ Succeeded(r)
               /\ Plain(ResponseItineraries(r)) = ResponseItineraries(r)
               /\ ResponseItineraries(r) = req[r].itineraries


\* ---------------------------------------------------------------- C8
Rows(seq) == {seq[i] : i \in 1..Len(seq)}

AllCoords == CoordValues \X CoordValues \X CoordValues \X CoordValues

\* The lookup by coordinates returns, in stored order and once each, the
\* rows of the user whose four stored coordinates equal the requested ones.
LookupExact ==
    \A u \in Users, q \in AllCoords :
        LET res == GetPreferencesByCoordinates(u, q[1], q[2], q[3], q[4])
        IN /\ Rows(res) = {row \in Rows(tables["route_preference"]) :
                              /\ row.user_id = u
                              /\ row.coords[1] = q[1] /\ row.coords[2] = q[2]
                              /\ row.coords[3] = q[3] /\ row.coords[4] = q[4]}
           /\ Cardinality(Rows(res)) = Len(res)
           /\ \A i, j \in 1..Len(res) : i < j => res[i].id < res[j].id

\* What a search aggregates beyond the request's and the stored global
\* strings comes from the matching route preferences only.
AggregatesOnlyMatching(rq) ==
    LET base == FromRequest(rq) \o (IF rq.prefs_failed THEN <<>> ELSE FromGlobal(rq))
        agg == rq.user_preferences
        tail == SubSeq(agg, Len(base) + 1, Len(agg))
    IN /\ Len(agg) >= Len(base)
       /\ SubSeq(agg, 1, Len(base)) = base
       /\ Len(tail) <= Len(FromRoute(rq))
       /\ \A k \in 1..Len(tail) : tail[k] \in Rows(FromRoute(rq))

FullyCovers(response, itineraries) ==
    /\ Len(response) = Len(itineraries)
    /\ \A i \in 1..Len(itineraries) :
           Len(response[i].leg_insights) = Len(itineraries[i].legs)

\* C11: when the insight call returns an entry for every itinerary and every
\* leg, the request succeeds, itinerary i carries the text of entry i, its
\* leg j the leg text j of entry i, and every other field is as routed.
C11_FullInsightMerged ==
    \A r \in Requests :
        (/\ Done(r)
         /\ req[r].insight.kind = "returned"
         /\ FullyCovers(req[r].insight.response, req[r].itineraries))
            => /\ Succeeded(r)
               /\ Len(ResponseItineraries(r)) = Len(req[r].itineraries)
               /\ \A i \in 1..Len(req[r].itineraries) :
                      LET out == ResponseItineraries(r)[i]
                          routed == req[r].itineraries[i]
                          entry == req[r].insight.response[i]
                      IN /\ out.ai_insight = entry.ai_insight
                         /\ out.duration = routed.duration
                         /\ Len(out.legs) = Len(routed.legs)
                         /\ \A j \in 1..Len(routed.legs) :
                                /\ out.legs[j].ai_insight = entry.leg_insights[j]
                                /\ out.legs[j].mode = routed.legs[j].mode
                                /\ out.legs[j].duration = routed.legs[j].duration

C11_Witness ==
    \E r \in Requests :
        /\ Succeeded(r)
        /\ req[r].insight.kind = "returned"
        /\ Len(req[r].itineraries) = 2
        /\ Len(req[r].itineraries[2].legs) = 2
        /\ ResponseItineraries(r)[2].ai_insight = <<"it", 2>>
        /\ ResponseItineraries(r)[2].legs[2].ai_insight = <<"leg", 2, 2>>

\* ---------------------------------------------------------------- C12
\* Request r is answered in this step without a valid bearer token.
StepUnauthenticated(r) ==
    /\ req[r].pc = "idle"
    /\ req'[r].endpoint \in ProtectedEndpoints
    /\ req'[r].token \in {"missing", "invalid"}

\* C12: on every protected endpoint a request without a token is answered
\* 401 and one with an invalid token 403, and the step that answers it calls
\* neither adapter and leaves the preference stores as they are.
C12_UnauthenticatedRejected ==
    [][\A r \in Requests :
        StepUnauthenticated(r)
            => /\ req'[r].pc = "done"
               /\ req'[r].token = "missing" => req'[r].status = 401
               /\ req'[r].token = "invalid" => req'[r].status = 403
               /\ req'[r].routing_calls = 0
               /\ req'[r].insight_calls = 0
               /\ tables' = tables]_vars

\* ---------------------------------------------------------------- C13
\* Request r makes its delete_preference call in this step.
StepDelete(r) == req[r].pc = "idle" /\ req'[r].op = "delete_preference"

RowsWithId(svc, id) == {row \in Rows(tables[svc]) : row.id = id}

\* C13: delete_preference removes the row only when it exists and is the
\* caller's; an unknown id gives 404, another user's row 403, and in both
\* cases every store is left as it was.
C13_DeleteOwnedOnly ==
    [][\A r \in Requests :
        StepDelete(r)
            => LET c == req'[r]
                   target == RowsWithId(c.svc, c.preference_id)
                   owned == target # {} /\ \A row \in target : row.user_id = c.user
               IN /\ target = {} => (c.status = 404 /\ tables' = tables)
                  /\ (target # {} /\ ~owned) => (c.status = 403 /\ tables' = tables)
                  /\ owned => /\ c.status = 204
                              /\ Rows(tables'[c.svc]) = Rows(tables[c.svc]) \ target
                              /\ \A svc \in Services \ {c.svc} :
                                     tables'[svc] = tables[svc]
                  /\ tables' # tables => owned]_vars

C13_Witness ==
    \E r \in Requests :
        /\ req[r].op = "delete_preference"
        /\ req[r].status = 403
        /\ \E row \in RowsWithId(req[r].svc, req[r].preference_id) :
               row.user_id # req[r].user

\* ---------------------------------------------------------------- C14
\* Request r makes a call of a preference service in this step.
StepCall(r) == req[r].pc = "idle" /\ req'[r].op # ""

\* get_user_preferences(u) lists, once each, the stored rows of user u.
OwnRowsOnly ==
    \A svc \in Services, u \in Users :
        LET res == GetUserPreferences(svc, u)
        IN /\ Rows(res) = {row \in Rows(tables[svc]) : row.user_id = u}
           /\ Cardinality(Rows(res)) = Len(res)

\* A call made by one user changes no other user's list, and a create that
\* succeeds adds one row to the list of its caller.
OthersUntouched(r) ==
    \E svc0 \in Services, u \in Users :
        /\ req'[r].svc = svc0
        /\ req'[r].user = u
        /\ \A svc \in Services, v \in Users \ {u} :
               GetUserPreferences(svc, v)' = GetUserPreferences(svc, v)
        /\ (req'[r].op = "create_preference" /\ req'[r].status = 201)
               => Len(GetUserPreferences(svc0, u)')
                     = Len(GetUserPreferences(svc0, u)) + 1

\* C14: after any creates and deletes by any users, get_user_preferences(u)
\* returns exactly the stored preferences of u and never another user's.
C14_UserIsolation ==
    /\ []OwnRowsOnly
    /\ [][\A r \in Requests : StepCall(r) => OthersUntouched(r)]_vars

C14_Witness ==
    /\ next_id["global_preference"] = 3
    /\ Len(tables["global_preference"]) = 1
    /\ GetUserPreferences("global_preference", 1) = <<>>
    /\ Len(GetUserPreferences("global_preference", 2)) = 1
    /\ Len(GetUserPreferences("route_preference", 1)) = 1

\* ---------------------------------------------------------------- C15
\* Request r makes its create_preference call in this step.
StepCreate(r) == req[r].pc = "idle" /\ req'[r].op = "create_preference"

OnlyWhitespace(p) == \A k \in 1..Len(p) : p[k] = " "

Spaces(n) == [k \in 1..n |-> " "]

\* q is p without its leading and trailing whitespace.
StrippedOf(q, p) ==
    /\ q # <<>>
    /\ q[1] # " "
    /\ q[Len(q)] # " "
    /\ \E i, j \in 0..Len(p) : p = Spaces(i) \o q \o Spaces(j)

\* C15: create_preference answers 400 and stores nothing for a prompt that is
\* empty or only whitespace; otherwise it adds exactly one row, owned by the
\* caller, whose prompt is the input without leading and trailing whitespace.
C15_CreateStripsOrRejects ==
    [][\A r \in Requests :
        StepCreate(r)
            => \E svc \in Services, u \in Users, p \in PromptInputs :
                  /\ req'[r].svc = svc
                  /\ req'[r].user = u
                  /\ req'[r].prompt_in = p
                  /\ IF OnlyWhitespace(p)
                     THEN req'[r].status = 400 /\ tables' = tables
                     ELSE /\ req'[r].status = 201
                          /\ Len(tables'[svc]) = Len(tables[svc]) + 1
                          /\ SubSeq(tables'[svc], 1, Len(tables[svc])) = tables[svc]
                          /\ tables'[svc][Len(tables'[svc])].user_id = u
                          /\ StrippedOf(tables'[svc][Len(tables'[svc])].prompt, p)
                          /\ \A other \in Services \ {svc} :
                                 tables'[other] = tables[other]]_vars

C15_Witness ==
    \E r \in Requests :
        /\ req[r].op = "create_preference"
        /\ req[r].status = 201
        /\ req[r].prompt_in = <<" ", "a">>
        /\ \E row \in Rows(tables[req[r].svc]) :
               row.user_id = req[r].user /\ row.prompt = <<"a">>

\* ---------------------------------------------------------------- C16
\* C16: a search whose num_itineraries is outside 1..10 is answered 422
\* without a routing call; a search that is let through calls the routing
\* adapter with the request's num_itineraries, 3 when it was left out, and
\* so with a count within 1..10.
C16_NumItinerariesBounded ==
    \A r \in Requests :
        req[r].endpoint = "routes_search" /\ req[r].token = "valid"
            => /\ (~req[r].num_in.is_none /\ req[r].num_in.value \notin 1..10)
                      => /\ Done(r)
                         /\ req[r].status = 422
                         /\ req[r].routing_calls = 0
               /\ req[r].routing_calls > 0
                      => /\ req[r].first \in 1..10
                         /\ req[r].first = req[r].num_itineraries
                         /\ req[r].num_in.is_none => req[r].first = 3
                         /\ ~req[r].num_in.is_none => req[r].first = req[r].num_in.value

C16_Witness ==
    \E r \in Requests :
        /\ req[r].endpoint = "routes_search"
        /\ req[r].num_in = NumGiven(10)
        /\ req[r].routing_calls = 1
        /\ req[r].first = 10

TerminalState(r) ==
    IF ~Succeeded(r) THEN "FAILED"
    ELSE IF req[r].insight.kind = "returned" /\ req[r].insight.response # <<>>
    THEN "MERGED"
    ELSE "DEGRADED"

\* C18: once the routing call has returned, the search ends in exactly one
\* of MERGED and DEGRADED and is answered successfully, whatever a later
\* step does.
C18_FetchedNeverFails ==
    \A r \in Requests :
        (Done(r) /\ Fetched(r))
            => /\ TerminalState(r) \in {"MERGED", "DEGRADED"}
               /\ req[r].status = 200
               /\ req[r].raised = ""

\* ---------------------------------------------------------------- C19
\* C19: when the routing call returns no itinerary the insight adapter is
\* not called.
C19_NoInsightCallOnEmpty ==
    \A r \in Requests :
        (Fetched(r) /\ req[r].itineraries = <<>>) => req[r].insight_calls = 0

\* ---------------------------------------------------------------- C20
\* C20: the insight adapter is called only after the routing call of the
\* same request has returned; when the routing call raises, the insight
\* adapter is never called and the request is answered without a payload.
C20_InsightAfterRouting ==
    \A r \in Requests :
        /\ req[r].insight_calls > 0
               => /\ req[r].pc \in {"insight", "done"}
                  /\ req[r].routing_calls = 1
                  /\ req[r].raised \notin RoutingErrors
        /\ req[r].raised \in RoutingErrors
               => /\ Done(r)
                  /\ req[r].insight_calls = 0
                  /\ req[r].insight.kind = "none"
                  /\ req[r].body = <<>>
                  /\ req[r].status # 200

C20_Witness ==
    \E r \in Requests :
        /\ Done(r)
        /\ req[r].raised = "RoutingAPIError"
        /\ req[r].routing_calls = 1
        /\ req[r].insight_calls = 0
        /\ req[r].body = <<>>

\* ---------------------------------------------------------------- C21
\* C21: a search calls the routing adapter exactly once and the insight
\* adapter at most once (once exactly when the routing call returned),
\* whether the calls return, fail or time out.
C21_NoRetries ==
    \A r \in Requests :
        req[r].pc # "idle"
            => /\ req[r].routing_calls = 1
               /\ req[r].insight_calls <= 1
               /\ req[r].insight_calls = 1 <=> Fetched(r)

\* A search whose routing call timed out and was answered with one call.
C21_Witness ==
    \E r \in Requests :
        /\ Done(r)
        /\ req[r].cause = "TimeoutException"
        /\ req[r].routing_calls = 1
        /\ req[r].insight_calls = 0

\* ---------------------------------------------------------------- C22
\* C22: a failing get_itinaries raises a routing error and nothing else: a
\* provider error gives RoutingAPIError, a timeout or HTTP error
\* RoutingNetworkError, a KeyError / ValueError / TypeError RoutingDataError,
\* any other exception the base RoutingServiceError.
C22_FailureClasses ==
    \A r \in Requests :
        (Done(r) /\ req[r].op = "get_itinaries")
            => LET exc == req[r].cause
                   raised == req[r].raised
               IN /\ exc = "" <=> raised = ""
                  /\ exc # "" => raised \in RoutingErrors
                  /\ exc = "TransportQueryError" => raised = "RoutingAPIError"
                  /\ exc \in {"TimeoutException", "HTTPError"}
                        => raised = "RoutingNetworkError"
                  /\ exc \in {"KeyError", "ValueError", "TypeError"}
                        => raised = "RoutingDataError"
                  /\ exc = "Exception" => raised = "RoutingServiceError"

\* A call whose response could not be parsed.
C22_Witness ==
    \E r \in Requests :
        /\ Done(r)
        /\ req[r].op = "get_itinaries"
        /\ req[r].cause = "KeyError"
        /\ req[r].raised = "RoutingDataError"

\* ---------------------------------------------------------------- C23
\* The insight call of request r timed out.
InsightTimedOut(r) ==
    /\ Done(r)
    /\ req[r].insight.kind = "raised"
    /\ req[r].upstream = <<Raises("TimeoutException")>>

\* C23: a timeout of the routing call is a RoutingNetworkError and fails the
\* search with 503; a timeout of the insight call does not fail the search,
\* which is answered with the itineraries as routed.
C23_Timeouts ==
    \A r \in Requests :
        /\ (Done(r) /\ req[r].cause = "TimeoutException")
              => /\ req[r].raised = "RoutingNetworkError"
                 /\ req[r].status = 503
        /\ InsightTimedOut(r)
              => /\ Succeeded(r)
                 /\ ResponseItineraries(r) = req[r].itineraries

\* ---------------------------------------------------------------- C24
\* A finished call of get_itinerary_insight, and the calls whose request
\* to the insight provider failed: an exception, a status other than 200.
InsightCalled(r) == Done(r) /\ req[r].op = "get_itinerary_insight"

UpstreamFailed(r) ==
    \/ req[r].upstream[1].kind = "raises"
    \/ req[r].upstream[1].status_code # 200

\* C24: get_itinerary_insight never raises, and after a non-200 response, a
\* timeout, a network error or any other exception the itinerary is exactly
\* the one that was passed in.
C24_InsightNeverRaises ==
    \A r \in Requests :
        InsightCalled(r)
            => /\ req[r].raised = ""
               /\ UpstreamFailed(r) => req[r].result = req[r].arg

\* A call that timed out and one that was answered with a 500.
C24_Witness ==
    \E r \in Requests :
        /\ InsightCalled(r)
        /\ req[r].upstream[1] \in {Raises("TimeoutException"),
                                   Responds(500, MalformedBody)}
        /\ req[r].arg[1].legs # <<>>
        /\ req[r].result = req[r].arg

\* ---------------------------------------------------------------- C25
\* C25: after a 200 response the itinerary carries the description of the
\* response, leg j carries the leg insight at position j when the response
\* has one and none otherwise, entries beyond the legs are ignored, and the
\* legs are otherwise the same legs in the same order.
C25_InsightMerged ==
    \A r \in Requests :
        (/\ InsightCalled(r)
         /\ ~UpstreamFailed(r)
         /\ req[r].upstream[1].json.well_formed)
            => LET before == req[r].arg[1]
                   after == req[r].result[1]
                   data == req[r].upstream[1].json
               IN /\ "ai_description" \in DOMAIN after
                  /\ after.ai_description = data.ai_description
                  /\ Len(after.legs) = Len(before.legs)
                  /\ \A j \in 1..Len(before.legs) :
                        /\ after.legs[j].ai_insight =
                              IF j <= Len(data.ai_insights)
                              THEN data.ai_insights[j]
                              ELSE Absent
                        /\ PlainLeg(after.legs[j]) = PlainLeg(before.legs[j])
                  /\ after.duration = before.duration

\* ---------------------------------------------------------------- C26
\* The request to the insight provider was answered 200 with a body that
\* validates.
UpstreamSucceeded(up) ==
    /\ up.kind = "response"
    /\ up.status_code = 200
    /\ up.json.well_formed

\* get_itineraries_insights raises on every upstream failure and returns
\* the response data of an upstream success.
BatchRaisesOnFailure ==
    \A r \in Requests :
        (Done(r) /\ req[r].op = "get_itineraries_insights")
            => IF UpstreamSucceeded(req[r].upstream[1])
               THEN req[r].raised = "" /\ req[r].result = <<req[r].upstream[1].json>>
               ELSE req[r].raised # "" /\ req[r].result = <<>>

\* An authenticated POST /insight/iteneraries is answered 500 on every
\* failure of the service and with the upstream response data otherwise.
InsightsEndpointAnswers ==
    \A r \in Requests :
        (Done(r) /\ req[r].endpoint = "insight_iteneraries" /\ req[r].token = "valid")
            => /\ req[r].upstream # <<>>
               /\ IF UpstreamSucceeded(req[r].upstream[1])
                  THEN req[r].status = 200 /\ req[r].body = <<req[r].upstream[1].json>>
                  ELSE req[r].status = 500

\* C26: get_itineraries_insights hands every failure (non-200 response,
\* timeout, any other error) to its caller as an exception, and the POST
\* /insight/iteneraries endpoint answers 500 on every such failure and with
\* the unchanged upstream data on success.
C26_BatchFailuresSurface ==
    BatchRaisesOnFailure /\ InsightsEndpointAnswers

\* ---------------------------------------------------------------- C27
\* The step in which request r is answered.
StepAnswer(r) == req[r].pc = "insight" /\ req'[r].pc = "done"

\* The texts of a response come from the insight response of the request.
TextsFrom(final, response) ==
    \A i \in 1..Len(final) :
        /\ i <= Len(response)
        /\ final[i].ai_insight = response[i].ai_insight
        /\ \A j \in 1..Len(final[i].legs) :
              /\ j <= Len(response[i].leg_insights)
              /\ final[i].legs[j].ai_insight = response[i].leg_insights[j]

\* C27: with searches running concurrently, a step of one search changes
\* the itineraries and legs of no other search, and the response of a
\* search is made of the list its own routing call returned and the texts
\* its own insight call returned, whatever the interleaving.
C27_NoSharingAcrossRequests ==
    [][\A r \in ConcurrentRequests :
          req'[r] # req[r]
              => /\ \A q \in ConcurrentRequests \ {r} : req'[q] = req[q]
                 /\ (StepAnswer(r) /\ req'[r].status = 200)
                       => /\ Plain(req'[r].body[1].itineraries) = req[r].itineraries
                          /\ TextsFrom(req'[r].body[1].itineraries,
                                       req'[r].insight.response)]_vars

\* One search is answered with its itineraries while another one, handed a
\* different list by the routing call, is still waiting for its insights.
C27_Witness ==
    \E r1, r2 \in ConcurrentRequests :
        /\ r1 # r2
        /\ Succeeded(r1)
        /\ ResponseItineraries(r1) # <<>>
        /\ req[r2].pc = "insight"
        /\ req[r2].itineraries # <<>>
        /\ req[r2].itineraries # req[r1].itineraries

\* ---------------------------------------------------------------- C28
\* The two ways a search ends: a response is returned, or an HTTPException
\* with one of the three statuses is raised.
EndsWithResponse(r) ==
    /\ req[r].status = 200
    /\ req[r].raised = ""
    /\ Len(req[r].body) = 1

EndsWithHTTPException(r) ==
    /\ req[r].status \in {502, 503, 500}
    /\ req[r].detail # ""
    /\ req[r].raised # ""
    /\ req[r].body = <<>>

\* C28: every finished search ended in exactly one of the two ways, for
\* every combination of a failing preference read, a failing routing call
\* and a failing insight call; no other exception leaves the handler.
C28_OneOutcome ==
    \A r \in Requests :
        Done(r) => (EndsWithResponse(r) /\ ~EndsWithHTTPException(r))
                      \/ (EndsWithHTTPException(r) /\ ~EndsWithResponse(r))

\* A search whose preference read failed and whose insight call failed
\* after the routing call had returned itineraries.
C28_Witness ==
    \E r \in Requests :
        /\ Done(r)
        /\ req[r].prefs_failed
        /\ req[r].insight.kind = "raised"
        /\ req[r].itineraries # <<>>
        /\ EndsWithHTTPException(r)

\* ---------------------------------------------------------------- C29
\* The stored rows of user u, table by table.
RowsOfUser(u) ==
    [svc \in Services |-> SelectSeq(tables[svc], LAMBDA row : row.user_id = u)]

\* What a search of user u with the request preferences p hands to the
\* insight adapter in the current state of the stores.
Handed(p, u, f) == InsightPreferences(CollectUserPreferences(p, u, f))

\* C29: the list a search hands to the insight adapter is read under the
\* id of the authenticated user only: a search aggregates the list of its
\* own user, and two searches with the same input made before and after a
\* change of other users' stored preferences get the same list.
C29_OwnPreferencesOnly ==
    [][/\ \A r \in Requests :
             /\ StepStart(r)
                   => InsightPreferences(req'[r].user_preferences)
                         = Handed(req'[r].prefs_in, req'[r].user, req'[r].prefs_failed)
             /\ StepHandOver(r)
                   => req'[r].insight_prefs
                         = InsightPreferences(req[r].user_preferences)
       /\ \A u \in Users, p \in RequestPrefs, f \in BOOLEAN :
             RowsOfUser(u)' = RowsOfUser(u)
                 => Handed(p, u, f)' = Handed(p, u, f)]_vars

\* A search of a user with a stored preference, handed over to the insight
\* adapter while another user has a stored preference in the same table.
C29_Witness ==
    \E r \in Requests :
        /\ req[r].pc = "insight"
        /\ ~req[r].prefs_failed
        /\ req[r].prefs_in = None
        /\ req[r].insight_prefs = Some(req[r].user_preferences)
        /\ \E i, k \in 1..Len(tables["preference"]) :
              /\ tables["preference"][i].user_id = req[r].user
              /\ tables["preference"][k].user_id # req[r].user
        /\ Len(req[r].user_preferences) = 1

\* ---------------------------------------------------------------- C30
\* The adapter whose _get_client a call of operation op goes through.
HolderOf(op) ==
    IF op = "get_itinaries" THEN "routing_service" ELSE "ai_agents_service"

\* The clients of a holder that were created and not closed.
LiveClients(svc) == (1..clients[svc].created) \ clients[svc].closed

\* Each holder has at most one live client, the one it holds; the client
\* held while a close() is under way is the one being closed.
AtMostOneClient ==
    \A svc \in ClientHolders :
        LiveClients(svc) =
            IF clients[svc].client = NoClient \/ clients[svc].closing
            THEN {}
            ELSE {clients[svc].client}

\* A call through _get_client keeps the held client, or creates a client
\* that never existed before when none is held.
GetClientStep ==
    \A r \in Requests :
        (req[r].pc = "idle" /\ req'[r].pc = "done" /\ req'[r].op # "")
            => LET svc == HolderOf(req'[r].op)
               IN /\ clients'[svc].client # NoClient
                  /\ clients[svc].client # NoClient => clients'[svc] = clients[svc]
                  /\ clients[svc].client = NoClient
                        => /\ clients'[svc].client \notin 1..clients[svc].created
                           /\ clients'[svc].closed = clients[svc].closed

\* A held client is taken away only by a close() of the routing service,
\* which has closed it and leaves none held.
CloseStep ==
    \A svc \in ClientHolders :
        /\ (~clients[svc].closing /\ clients'[svc].closing)
              => /\ clients[svc].client # NoClient
                 /\ clients'[svc].client = clients[svc].client
                 /\ clients'[svc].closed = clients[svc].closed \cup {clients[svc].client}
        /\ (clients[svc].client # NoClient
                /\ clients'[svc].client # clients[svc].client)
              => /\ svc = "routing_service"
                 /\ clients[svc].closing /\ ~clients'[svc].closing
                 /\ clients[svc].client \in clients[svc].closed
                 /\ clients'[svc].client = NoClient

\* C30: each service holds at most one client at any time; _get_client
\* creates one only when none is held and returns the held one otherwise;
\* RoutingService.close closes the held client and resets it to none, and
\* the next _get_client creates a fresh client.
C30_LazyClients ==
    []AtMostOneClient /\ [][GetClientStep /\ CloseStep]_vars

\* The routing client was closed and a later call created a fresh one.
C30_Witness ==
    /\ clients["routing_service"].closed = {1}
    /\ clients["routing_service"].client = 2
    /\ clients["ai_agents_service"].client = 1

====
